---- MODULE Spec2Model ----
(***************************************************************************)
(* Model of impostormaker.py: the main program of the Second Life         *)
(* impostor maker.  A run reads the input files, derives the output file   *)
(* name, extracts every image, computes the uniform cropping rectangle,    *)
(* stacks the cropped images into one composite and computes the physical  *)
(* size of the impostor.                                                   *)
(*                                                                         *)
(* Representation:                                                         *)
(*  - a Python string is the sequence of its characters;                   *)
(*  - a Python None is the empty tuple None, any other value v of an       *)
(*    optional field is the one-element tuple Some(v);                     *)
(*  - a raster is [id, box]: the pixels of box (x0,y0,x2,y2) of the image  *)
(*    that extract() produced for input file number id; its size is the    *)
(*    extent of the box;                                                   *)
(*  - a Python float is the exact rational <<numerator, denominator>>; the *)
(*    rounding of IEEE doubles is not modelled;                            *)
(*  - impostorfile.ImpostorFile and PIL are collaborators outside this     *)
(*    file: extract() is a nondeterministic choice of failure or of a      *)
(*    cropped image size and bounding box, crop/resize/paste are modelled  *)
(*    by what they do to sizes and to the rows of the canvas.              *)
(***************************************************************************)
EXTENDS Integers, Sequences, FiniteSets, TLC

VARIABLES
    pc,             \* position of main()
    filenames,      \* Impostor.filenames (args.files)
    framesize,      \* Impostor.framesize (args.width, args.height)
    impostorfiles,  \* Impostor.impostorfiles
    croprect,       \* Impostor.croprect
    sizes,          \* Impostor.sizes
    croppedimages,  \* Impostor.croppedimages (unset until uniformcrop stores it)
    outfile,        \* main: outfile
    procvalid,      \* main: valid = imp.processfiles()
    cropvalid,      \* main: valid = imp.uniformcrop()
    finalimage,     \* main: finalimage
    finalsize,      \* main: value of imp.calcimpostorsize()
    tile,           \* main: the imagesize handed to generateimpostor
    saved,          \* name of the file written by finalimage.save
    diag            \* the failure diagnostics printed so far

vars == <<pc, filenames, framesize, impostorfiles, croprect, sizes, croppedimages,
          outfile, procvalid, cropvalid, finalimage, finalsize, tile, saved, diag>>

-----------------------------------------------------------------------------
(* Bounds of the model *)

MaxFiles == 2

MaxLen == 2

MaxBatch == 2

-----------------------------------------------------------------------------
(* Values *)

None == <<>>

Some(v) == <<v>>

SetMin(S) == CHOOSE x \in S : \A y \in S : x <= y

SetMax(S) == CHOOSE x \in S : \A y \in S : x >= y

min2(a, b) == IF a <= b THEN a ELSE b

max2(a, b) == IF a >= b THEN a ELSE b

Range(s) == {s[k] : k \in 1..Len(s)}

-----------------------------------------------------------------------------
(* stringcommon, stringscommon *)

RECURSIVE stringcommonFrom(_, _, _)
stringcommonFrom(a, b, i) ==
    IF i >= min2(Len(a), Len(b)) THEN min2(Len(a), Len(b))
    ELSE IF ~(a[i + 1] = b[i + 1]) THEN i
    ELSE stringcommonFrom(a, b, i + 1)

stringcommon(a, b) == stringcommonFrom(a, b, 0)

\* Never None here: args.files has nargs='+', so the list is not empty.
stringscommon(lst) ==
    IF Len(lst) = 0 THEN None
    ELSE LET cnt == SetMin({stringcommon(lst[1], lst[k]) : k \in 1..Len(lst)})
         IN  SubSeq(lst[1], 1, cnt)

-----------------------------------------------------------------------------
(* outfilename *)

MARKER == <<"i", "m", "p", "o", "s", "t", "o", "r", "-">>

PNG == <<".", "p", "n", "g">>

\* str.split('/')
RECURSIVE split(_)
split(s) ==
    IF \A k \in 1..Len(s) : s[k] # "/" THEN <<s>>
    ELSE LET k == SetMin({j \in 1..Len(s) : s[j] = "/"})
         IN  <<SubSeq(s, 1, k - 1)>> \o split(SubSeq(s, k + 1, Len(s)))

\* '/'.join(parts)
RECURSIVE join(_)
join(parts) ==
    IF Len(parts) = 0 THEN <<>>
    ELSE IF Len(parts) = 1 THEN parts[1]
    ELSE parts[1] \o <<"/">> \o join(Tail(parts))

markFirst(sparts) == [sparts EXCEPT ![1] = MARKER \o sparts[1]]

\* sparts[-1] = "impostor-" + sparts[-1]
markLast(sparts) == [sparts EXCEPT ![Len(sparts)] = MARKER \o sparts[Len(sparts)]]

outfilename(name) ==
    IF name = None
    THEN join(markLast(split(stringscommon(filenames)))) \o PNG
    ELSE name[1] \o PNG

-----------------------------------------------------------------------------
(* Rasters (PIL.Image) *)

Raster(i, size) == [id |-> i, box |-> <<0, 0, size[1], size[2]>>]

Size(img) == <<img.box[3] - img.box[1], img.box[4] - img.box[2]>>

\* Image.crop(rect): rect is relative to the image's own origin
Crop(img, rect) ==
    [id |-> img.id,
     box |-> <<img.box[1] + rect[1], img.box[2] + rect[2],
               img.box[1] + rect[3], img.box[2] + rect[4]>>]

-----------------------------------------------------------------------------
(* uniformcrop: size check *)

\* MAXALLOWEDSIZEMISMATCH = 0.05, as the rational 5/100
MAXALLOWEDSIZEMISMATCH == <<5, 100>>

TooSmallInclusive(maxv, v) ==
    (maxv - v) * MAXALLOWEDSIZEMISMATCH[2] >= MAXALLOWEDSIZEMISMATCH[1] * maxv

\* (maxv - v) / maxv > MAXALLOWEDSIZEMISMATCH, for maxv > 0
TooSmall(maxv, v) ==
    (maxv - v) * MAXALLOWEDSIZEMISMATCH[2] > MAXALLOWEDSIZEMISMATCH[1] * maxv

\* The loop over sizes, from record k on.  The width quotient is evaluated
\* first and the height quotient only when the width passes ("or" is
\* short-circuit); a quotient by 0 raises ZeroDivisionError.
RECURSIVE SizeCheck(_, _, _, _)
SizeCheck(szs, maxwidth, maxheight, k) ==
    IF k > Len(szs) THEN "ok"
    ELSE IF maxwidth = 0 THEN "ZeroDivisionError"
    ELSE IF TooSmall(maxwidth, szs[k][1]) THEN "mismatch"
    ELSE IF maxheight = 0 THEN "ZeroDivisionError"
    ELSE IF TooSmall(maxheight, szs[k][2]) THEN "mismatch"
    ELSE SizeCheck(szs, maxwidth, maxheight, k + 1)

-----------------------------------------------------------------------------
(* uniformcrop: cropping rectangle *)

wrect(bboxes) ==
    <<SetMin({b[1] : b \in Range(bboxes)}),
      SetMin({b[2] : b \in Range(bboxes)}),
      SetMax({b[3] : b \in Range(bboxes)}),
      SetMax({b[4] : b \in Range(bboxes)})>>

\* int(maxwidth/2), maxwidth >= 0
xcenter(maxwidth) == maxwidth \div 2

xleftsize(maxwidth, w) == max2(0, xcenter(maxwidth) - w[1])

xrightsize(maxwidth, w) == min2(maxwidth, w[3] - xcenter(maxwidth))

xhalfsizeMin(maxwidth, w) == min2(xleftsize(maxwidth, w), xrightsize(maxwidth, w))

xhalfsizeWide(maxwidth, w) == max2(xleftsize(maxwidth, w), xrightsize(maxwidth, w)) + 1

xhalfsize(maxwidth, w) == max2(xleftsize(maxwidth, w), xrightsize(maxwidth, w))

CropRect(maxwidth, bboxes) ==
    LET w == wrect(bboxes)
    IN  <<xcenter(maxwidth) - xhalfsize(maxwidth, w), w[2],
          xcenter(maxwidth) + xhalfsize(maxwidth, w), w[4]>>

CropAllInPlace(files, rect) == [i \in 1..Len(files) |-> files[i].croppedimage[1]]

\* [impf.croppedimage.crop(self.croprect) for impf in self.impostorfiles]
CropAll(files, rect) == [i \in 1..Len(files) |-> Crop(files[i].croppedimage[1], rect)]

-----------------------------------------------------------------------------
(* generateimpostor *)

\* PIL.Image.new("RGBA", size): every row transparent
NewImage(size) == [size |-> size, rows |-> [r \in 1..size[2] |-> None], pastes |-> <<>>]

\* Image.resize(imagesize, LANCZOS)
Resize(img, imagesize) == [of |-> img, size |-> imagesize]

PasteAtWidth(imagesize, n) == <<0, imagesize[1] * n>>

\* (0, imagesize[1]*n) of the source: the offset of image n (0-based)
PasteAt(imagesize, n) == <<0, imagesize[2] * n>>

\* composite.paste(resized, at): pixel row y of the canvas is rows[y + 1];
\* rows outside the canvas are clipped.  pastes records the calls.
Paste(canvas, resized, n, at) ==
    [canvas EXCEPT
        !.rows = [r \in 1..Len(canvas.rows) |->
                    IF at[2] <= r - 1 /\ r - 1 < at[2] + resized.size[2]
                    THEN Some([image |-> resized.of, line |-> r - 1 - at[2],
                               x |-> at[1], w |-> resized.size[1]])
                    ELSE canvas.rows[r]],
        !.pastes = Append(canvas.pastes, [n |-> n, at |-> at])]

\* for n in range(cnt), from n on
RECURSIVE PasteAll(_, _, _, _)
PasteAll(canvas, images, imagesize, n) ==
    IF n >= Len(images) THEN canvas
    ELSE PasteAll(Paste(canvas, Resize(images[n + 1], imagesize), n, PasteAt(imagesize, n)),
                  images, imagesize, n + 1)

generateimpostor(images, imagesize) ==
    PasteAll(NewImage(<<imagesize[1], imagesize[2] * Len(images)>>), images, imagesize, 0)

-----------------------------------------------------------------------------
(* calcimpostorsize *)

RatMul(r, k) == <<r[1] * k, r[2]>>

RatEq(r, q) == r[1] * q[2] = q[1] * r[2]

croppedsizeCorner(rect) == <<rect[3], rect[4]>>

croppedsize(rect) == <<rect[3] - rect[1], rect[4] - rect[2]>>

calcimpostorsize(fsize, szs, rect) ==
    LET metersperpixel == <<(<<fsize[1], szs[1]>>), (<<fsize[2], szs[2]>>)>>
    IN  <<RatMul(metersperpixel[1], croppedsize(rect)[1]),
          RatMul(metersperpixel[2], croppedsize(rect)[2])>>

-----------------------------------------------------------------------------
(* Inputs: the command line and what extract() finds in each file *)

Alphabet == {"/", "a"}

Names == UNION {[1..n -> Alphabet] : n \in 0..MaxLen}

NameLists == UNION {[1..n -> Names] : n \in 1..MaxFiles}

Shot(d) == <<"/", "a", "/", "s", "h", "o", "t", "_", "0", d, ".", "p", "n", "g">>

ExampleFiles == <<Shot("1"), Shot("2")>>

ScenarioFiles == <<Shot("1"), Shot("2"), Shot("3")>>

GeomLists == {[i \in 1..n |-> <<"g">>] : n \in 1..MaxBatch}

FileLists == NameLists \cup GeomLists \cup {ExampleFiles, ScenarioFiles}

\* --width, --height: the defaults
FrameSizes == {<<6, 3>>}

GeomSizes == {<<20, 20>>, <<19, 20>>, <<21, 20>>, <<20, 18>>, <<0, 20>>, <<20, 0>>}

XPairs == {<<0, 12>>, <<8, 12>>, <<10, 10>>, <<12, 21>>}

YPairs == {<<0, 18>>, <<5, 20>>}

GeomImages ==
    {[size |-> s, bbox |-> <<x[1], y[1], x[2], y[2]>>] :
        s \in GeomSizes, x \in XPairs, y \in YPairs}

ScenarioSizes == {<<200, 100>>, <<196, 98>>, <<180, 100>>}

ScenarioBBoxes == <<(<<40, 10, 160, 90>>), (<<42, 10, 158, 88>>), (<<38, 12, 162, 90>>)>>

NameImages == {[size |-> <<20, 20>>, bbox |-> <<4, 2, 16, 18>>]}

\* What a successful extract() of file i can leave in the record
ExtractResults(i) ==
    IF filenames = ScenarioFiles
    THEN {[size |-> s, bbox |-> ScenarioBBoxes[i]] : s \in ScenarioSizes}
    ELSE IF filenames \in GeomLists THEN GeomImages
    ELSE NameImages

\* generateimpostor's imagesize: main passes (128,64)
TileSizes == {<<128, 64>>, <<2, 3>>}

-----------------------------------------------------------------------------
(* main *)

Init ==
    /\ pc = "readfiles"
    /\ filenames \in FileLists
    /\ framesize \in FrameSizes
    /\ impostorfiles = <<>>
    /\ croprect = None
    /\ sizes = None
    /\ croppedimages = None
    /\ outfile = None
    /\ procvalid = None
    /\ cropvalid = None
    /\ finalimage = None
    /\ finalsize = None
    /\ tile = None
    /\ saved = None
    /\ diag = <<>>

\* imp.readfiles()
ReadFiles ==
    /\ pc = "readfiles"
    /\ impostorfiles' = [i \in 1..Len(filenames) |->
                            [name |-> filenames[i], croppedimage |-> None,
                             croppedbbox |-> None]]
    /\ pc' = "outfilename"
    /\ UNCHANGED <<filenames, framesize, croprect, sizes, croppedimages, outfile,
                   procvalid, cropvalid, finalimage, finalsize, saved, diag, tile>>

\* outfile = imp.outfilename()
OutFileName ==
    /\ pc = "outfilename"
    /\ outfile' = Some(outfilename(None))
    /\ pc' = "processfiles"
    /\ UNCHANGED <<filenames, framesize, impostorfiles, croprect, sizes, croppedimages,
                   procvalid, cropvalid, finalimage, finalsize, saved, diag, tile>>

\* main after valid = imp.processfiles()
AfterProcessFiles(valid) == IF valid THEN "uniformcrop" ELSE "failed"

\* The record processfiles' loop is at: the first one not yet extracted
NextFile == SetMin({i \in 1..Len(impostorfiles) : impostorfiles[i].croppedimage = None})

\* One pass of processfiles' loop whose extract() fails: processfiles returns
\* False and main prints and returns.
ExtractFails ==
    /\ pc = "processfiles"
    /\ procvalid' = Some(FALSE)
    /\ diag' = Append(diag, "Process files failed.")
    /\ pc' = AfterProcessFiles(FALSE)
    /\ UNCHANGED <<filenames, framesize, impostorfiles, croprect, sizes, croppedimages,
                   outfile, cropvalid, finalimage, finalsize, saved, tile>>

\* One pass of processfiles' loop whose extract() succeeds; after the last
\* record processfiles returns True.
ExtractSucceeds ==
    /\ pc = "processfiles"
    /\ \E r \in ExtractResults(NextFile) :
          impostorfiles' = [impostorfiles EXCEPT
                                ![NextFile].croppedimage = Some(Raster(NextFile, r.size)),
                                ![NextFile].croppedbbox = Some(r.bbox)]
    /\ IF NextFile = Len(impostorfiles)
       THEN procvalid' = Some(TRUE) /\ pc' = AfterProcessFiles(TRUE)
       ELSE UNCHANGED <<procvalid, pc>>
    /\ UNCHANGED <<filenames, framesize, croprect, sizes, croppedimages, outfile,
                   cropvalid, finalimage, finalsize, saved, diag, tile>>

AfterUniformCropAlways(valid) == "generateimpostor"

\* main after valid = imp.uniformcrop()
AfterUniformCrop(valid) == IF valid THEN "generateimpostor" ELSE "failed"

BBoxes == [i \in 1..Len(impostorfiles) |-> impostorfiles[i].croppedbbox[1]]

ImageSizes == [i \in 1..Len(impostorfiles) |-> Size(impostorfiles[i].croppedimage[1])]

MaxWidth == SetMax({s[1] : s \in Range(ImageSizes)})

MaxHeight == SetMax({s[2] : s \in Range(ImageSizes)})

\* valid = imp.uniformcrop(), the size check raises ZeroDivisionError
UniformCropRaises ==
    /\ pc = "uniformcrop"
    /\ SizeCheck(ImageSizes, MaxWidth, MaxHeight, 1) = "ZeroDivisionError"
    /\ pc' = "error"
    /\ UNCHANGED <<filenames, framesize, impostorfiles, croprect, sizes, croppedimages,
                   outfile, procvalid, cropvalid, finalimage, finalsize, saved, diag, tile>>

\* valid = imp.uniformcrop(), the size check fails: returns False before
\* anything is assigned, and main prints and returns.
UniformCropMismatch ==
    /\ pc = "uniformcrop"
    /\ SizeCheck(ImageSizes, MaxWidth, MaxHeight, 1) = "mismatch"
    /\ cropvalid' = Some(FALSE)
    /\ diag' = diag \o <<"Sizes of images inside frame vary too much.",
                         "Uniform crop failed.">>
    /\ pc' = AfterUniformCrop(FALSE)
    /\ UNCHANGED <<filenames, framesize, impostorfiles, croprect, sizes, croppedimages,
                   outfile, procvalid, finalimage, finalsize, saved, tile>>

\* valid = imp.uniformcrop(), the size check passes
UniformCropOk ==
    /\ pc = "uniformcrop"
    /\ SizeCheck(ImageSizes, MaxWidth, MaxHeight, 1) = "ok"
    /\ sizes' = Some(<<MaxWidth, MaxHeight>>)
    /\ croprect' = Some(CropRect(MaxWidth, BBoxes))
    /\ croppedimages' = Some(CropAll(impostorfiles, CropRect(MaxWidth, BBoxes)))
    /\ cropvalid' = Some(TRUE)
    /\ pc' = AfterUniformCrop(TRUE)
    /\ UNCHANGED <<filenames, framesize, impostorfiles, outfile, procvalid, finalimage,
                   finalsize, saved, diag, tile>>

\* finalimage = imp.generateimpostor(imagesize).  self.croppedimages exists
\* only once uniformcrop has stored it (AttributeError otherwise).
GenerateImpostor ==
    /\ pc = "generateimpostor"
    /\ IF croppedimages = None
       THEN pc' = "error" /\ UNCHANGED <<finalimage, tile>>
       ELSE \E imagesize \in TileSizes :
              /\ tile' = Some(imagesize)
              /\ finalimage' = Some(generateimpostor(croppedimages[1], imagesize))
              /\ pc' = "calcimpostorsize"
    /\ UNCHANGED <<filenames, framesize, impostorfiles, croprect, sizes, croppedimages,
                   outfile, procvalid, cropvalid, finalsize, saved, diag>>

\* PIL's resize of a raster without pixels is outside this file: it may raise
ResizeRaises ==
    /\ pc = "generateimpostor"
    /\ croppedimages # None
    /\ \E n \in 1..Len(croppedimages[1]) :
          Size(croppedimages[1][n])[1] = 0 \/ Size(croppedimages[1][n])[2] = 0
    /\ pc' = "error"
    /\ UNCHANGED <<filenames, framesize, impostorfiles, croprect, sizes, croppedimages,
                   outfile, procvalid, cropvalid, finalimage, finalsize, saved, diag, tile>>

\* imp.calcimpostorsize() in main's print
CalcImpostorSize ==
    /\ pc = "calcimpostorsize"
    /\ IF sizes[1][1] = 0 \/ sizes[1][2] = 0
       THEN pc' = "error" /\ UNCHANGED finalsize
       ELSE /\ finalsize' = Some(calcimpostorsize(framesize, sizes[1], croprect[1]))
            /\ pc' = "save"
    /\ UNCHANGED <<filenames, framesize, impostorfiles, croprect, sizes, croppedimages,
                   outfile, procvalid, cropvalid, finalimage, saved, diag, tile>>

\* finalimage.save(outfile)
Save ==
    /\ pc = "save"
    /\ saved' = outfile
    /\ pc' = "done"
    /\ UNCHANGED <<filenames, framesize, impostorfiles, croprect, sizes, croppedimages,
                   outfile, procvalid, cropvalid, finalimage, finalsize, diag, tile>>

Next ==
    \/ ReadFiles
    \/ OutFileName
    \/ ExtractFails
    \/ ExtractSucceeds
    \/ UniformCropRaises
    \/ UniformCropMismatch
    \/ UniformCropOk
    \/ GenerateImpostor
    \/ ResizeRaises
    \/ CalcImpostorSize
    \/ Save

Spec == Init /\ [][Next]_vars

-----------------------------------------------------------------------------
(* Properties *)

\* processfiles returned True: every record holds its image and bounding box
Extracted == procvalid = Some(TRUE)

\* uniformcrop has returned or raised
CropReturned == Extracted /\ pc # "uniformcrop"

\* uniformcrop returned True
Cropped == cropvalid = Some(TRUE)

PositiveSizes == \A i \in 1..Len(ImageSizes) : ImageSizes[i][1] > 0 /\ ImageSizes[i][2] > 0

\* 0 <= x0 <= x2 <= maxWidth for every bounding box
InCanvas ==
    \A i \in 1..Len(BBoxes) :
        0 <= BBoxes[i][1] /\ BBoxes[i][1] <= BBoxes[i][3] /\ BBoxes[i][3] <= MaxWidth

OverTolerance(i) ==
    \/ (MaxWidth - ImageSizes[i][1]) * 20 > MaxWidth
    \/ (MaxHeight - ImageSizes[i][2]) * 20 > MaxHeight

\* C1: for a batch of positive cropped sizes uniformcrop always returns, and
\* returns False exactly when some record is more than 5% (1/20) below the
\* batch maximum in width or in height; a record exactly 5% below passes.
C1_SizeCheckIffOverTolerance ==
    (CropReturned /\ PositiveSizes) =>
        /\ cropvalid # None
        /\ (cropvalid = Some(FALSE)) <=> (\E i \in 1..Len(ImageSizes) : OverTolerance(i))

\* a batch with a record exactly 5% narrower than the widest one has passed
C1_Witness ==
    /\ Cropped
    /\ \E i \in 1..Len(ImageSizes) :
          ImageSizes[i][1] < MaxWidth /\ (MaxWidth - ImageSizes[i][1]) * 20 = MaxWidth

\* C2: after a successful uniformcrop on bounding boxes inside the canvas,
\* croprect is symmetric about floor(maxWidth/2) and contains every
\* bounding box.
C2_SymmetricAndContains ==
    (Cropped /\ InCanvas) =>
        /\ croprect[1][1] + croprect[1][3] = 2 * (MaxWidth \div 2)
        /\ \A i \in 1..Len(BBoxes) :
              /\ croprect[1][1] <= BBoxes[i][1]
              /\ croprect[1][2] <= BBoxes[i][2]
              /\ croprect[1][3] >= BBoxes[i][3]
              /\ croprect[1][4] >= BBoxes[i][4]

\* two different boxes were cropped and the rectangle is wider than their union
C2_Witness ==
    /\ Cropped /\ InCanvas
    /\ Len(BBoxes) >= 2
    /\ BBoxes[1] # BBoxes[2]
    /\ croprect[1][1] < wrect(BBoxes)[1]

\* C3: after a successful uniformcrop on bounding boxes inside the canvas,
\* croprect stays inside the columns 0..maxWidth.
C3_CropInsideCanvas ==
    (Cropped /\ InCanvas) => (0 <= croprect[1][1] /\ croprect[1][3] <= MaxWidth)

NothingCropped == sizes = None /\ croprect = None /\ croppedimages = None

NothingProduced == finalimage = None /\ finalsize = None /\ saved = None

\* C4: a composite or an output file exists only after processfiles and
\* uniformcrop both returned True; after a failed extraction main has
\* returned without validating, cropping, compositing or saving; after a
\* failed validation main has returned with no crop rectangle, no cropped
\* raster, no composite and no output file.
C4_FailureAborts ==
    /\ (finalimage # None \/ saved # None) => (Extracted /\ Cropped)
    /\ saved # None => finalimage # None
    /\ procvalid = Some(FALSE) =>
          (pc = "failed" /\ cropvalid = None /\ NothingCropped /\ NothingProduced)
    /\ cropvalid = Some(FALSE) =>
          (pc = "failed" /\ NothingCropped /\ NothingProduced)

\* a run whose validation failed has ended
C4_Witness == cropvalid = Some(FALSE) /\ pc = "failed" /\ Len(diag) = 2

\* zero pixel extents, or a union bounding box without area
Degenerate ==
    \/ MaxWidth = 0
    \/ MaxHeight = 0
    \/ wrect(BBoxes)[3] - wrect(BBoxes)[1] = 0
    \/ wrect(BBoxes)[4] - wrect(BBoxes)[2] = 0

\* C5: a degenerate batch ends in a reported failure: no exception and no
\* physical size.
C5_DegenerateRejected ==
    (CropReturned /\ Degenerate) => (pc # "error" /\ finalsize = None)

\* C6: the composite is tw wide and th*count high, row band n holds the lines
\* of cropped image n (the crop of input file n) resized to (tw, th), over
\* the full width, and every image was pasted exactly once.
C6_BandsInBatchOrder ==
    finalimage # None =>
        LET c == finalimage[1]
            imgs == croppedimages[1]
            cnt == Len(impostorfiles)
            tw == tile[1][1]
            th == tile[1][2]
        IN  /\ Len(imgs) = cnt
            /\ c.size = <<tw, th * cnt>>
            /\ Len(c.rows) = th * cnt
            /\ \A n \in 0..(cnt - 1) :
                  /\ imgs[n + 1].id = n + 1
                  /\ \A k \in 0..(th - 1) :
                        c.rows[n * th + k + 1] =
                            Some([image |-> imgs[n + 1], line |-> k, x |-> 0, w |-> tw])
                  /\ Cardinality({j \in 1..Len(c.pastes) : c.pastes[j].n = n}) = 1
            /\ Len(c.pastes) = cnt

\* a composite of at least two images exists
C6_Witness == finalimage # None /\ Len(croppedimages[1]) >= 2

\* C7: after a successful uniformcrop on bounding boxes inside the canvas the
\* half-width of croprect is the larger one-sided span of the union about
\* xcenter, no smaller symmetric rectangle covers the union, and the
\* vertical extent is exactly (min y0, max y2).
C7_SmallestSymmetric ==
    (Cropped /\ InCanvas) =>
        LET xc == MaxWidth \div 2
            minx0 == SetMin({BBoxes[i][1] : i \in 1..Len(BBoxes)})
            maxx2 == SetMax({BBoxes[i][3] : i \in 1..Len(BBoxes)})
            miny0 == SetMin({BBoxes[i][2] : i \in 1..Len(BBoxes)})
            maxy2 == SetMax({BBoxes[i][4] : i \in 1..Len(BBoxes)})
            half == croprect[1][3] - xc
        IN  /\ croprect[1][1] = xc - half
            /\ half = max2(xc - minx0, maxx2 - xc)
            /\ \A h \in 0..(half - 1) : ~(xc - h <= minx0 /\ xc + h >= maxx2)
            /\ croprect[1][2] = miny0
            /\ croprect[1][4] = maxy2

\* the union is off centre, so one side of the rectangle is blank margin
C7_Witness ==
    /\ Cropped /\ InCanvas
    /\ Len(BBoxes) >= 2
    /\ (MaxWidth \div 2) - wrect(BBoxes)[1] # wrect(BBoxes)[3] - (MaxWidth \div 2)
    /\ croprect[1][2] < BBoxes[1][2]

Scenario == filenames = ScenarioFiles /\ Extracted /\ MaxWidth = 200 /\ MaxHeight = 100

\* C8: for the three bounding boxes of the scenario and maximum extents
\* (200,100), a batch within tolerance passes uniformcrop with xcenter 100,
\* xleftsize 62, xrightsize 62, sizes (200,100) and croprect (38,10,162,90),
\* and with framesize (6,3) calcimpostorsize returns (3.72, 2.4).
C8_Scenario ==
    Scenario =>
        /\ (CropReturned /\ \A i \in 1..3 : ~OverTolerance(i)) => Cropped
        /\ Cropped =>
              /\ xcenter(MaxWidth) = 100
              /\ xleftsize(MaxWidth, wrect(BBoxes)) = 62
              /\ xrightsize(MaxWidth, wrect(BBoxes)) = 62
              /\ sizes = Some(<<200, 100>>)
              /\ croprect = Some(<<38, 10, 162, 90>>)
        /\ (finalsize # None /\ framesize = <<6, 3>>) =>
              /\ RatEq(finalsize[1][1], <<372, 100>>)
              /\ RatEq(finalsize[1][2], <<24, 10>>)

\* the scenario ran to the physical size
C8_Witness == Scenario /\ finalsize # None /\ framesize = <<6, 3>>

IsCommonPrefix(n) ==
    \A k \in 1..Len(filenames) :
        Len(filenames[k]) >= n /\ SubSeq(filenames[k], 1, n) = SubSeq(filenames[1], 1, n)

\* position of the last '/' of s, 0 when there is none
LastSlash(s) == SetMax({0} \cup {k \in 1..Len(s) : s[k] = "/"})

\* C10: the default output name is the longest common prefix of the
\* filenames with "impostor-" inserted after its last '/', followed by
\* ".png"; the two shot files give "/a/impostor-shot_0.png".
C10_DefaultOutputName ==
    outfile # None =>
        /\ \E n \in 0..Len(filenames[1]) :
              /\ IsCommonPrefix(n)
              /\ ~IsCommonPrefix(n + 1)
              /\ LET P == SubSeq(filenames[1], 1, n)
                 IN  outfile[1] = SubSeq(P, 1, LastSlash(P)) \o MARKER
                                    \o SubSeq(P, LastSlash(P) + 1, Len(P)) \o PNG
        /\ filenames = ExampleFiles =>
              outfile[1] = <<"/", "a", "/", "i", "m", "p", "o", "s", "t", "o", "r", "-",
                             "s", "h", "o", "t", "_", "0", ".", "p", "n", "g">>

\* the name of the two shot files has been computed
C10_Witness == outfile # None /\ filenames = ExampleFiles

====
